---- MODULE Spec2Model ----
(***************************************************************************)
(* Model of HW2_592_SciSim2: the geometry loaders, the pairing builder,    *)
(* the two PCA-whitening routines and the script body that whitens the     *)
(* final geometry and collects the embedding samples.                      *)
(*                                                                         *)
(* Numbers.  The script computes in floating point.  The model computes    *)
(* the same expressions exactly: data values are integers, means and       *)
(* covariances are rationals <<n, d>> in lowest terms, and the values      *)
(* that involve a square root (normalised eigenvectors, 1/sqrt(lambda +    *)
(* epsilon)) are kept in the closed form  p / sqrt(n * (l1+e) * (l2+e)..)  *)
(* (a "surd", see S below), so that no rounding is modelled and equality   *)
(* of two results is equality of their closed forms.                       *)
(***************************************************************************)
EXTENDS Integers, Sequences, FiniteSets, TLC

(***************************************************************************)
(* Exact rationals <<n, d>>, d > 0, gcd(n, d) = 1.                         *)
(***************************************************************************)
Abs(x) == IF x < 0 THEN -x ELSE x

RECURSIVE GCD(_, _)
GCD(a, b) == IF b = 0 THEN a ELSE GCD(b, a % b)

Q(n, d) ==
    LET g == GCD(Abs(n), Abs(d))
        sg == IF d < 0 THEN -1 ELSE 1
    IN  <<sg * (n \div g), sg * (d \div g)>>

QInt(n) == <<n, 1>>

QAdd(x, y) ==
    LET g == GCD(x[2], y[2])
    IN  Q(x[1] * (y[2] \div g) + y[1] * (x[2] \div g), (x[2] \div g) * y[2])

QNeg(x) == <<-x[1], x[2]>>

QSub(x, y) == QAdd(x, QNeg(y))

QMul(x, y) ==
    LET g1 == GCD(Abs(x[1]), y[2])
        g2 == GCD(Abs(y[1]), x[2])
    IN  <<(x[1] \div g1) * (y[1] \div g2), (x[2] \div g2) * (y[2] \div g1)>>

QDiv(x, y) == QMul(x, Q(y[2], y[1]))

(* x <= y, by comparing the continued fractions: no product is formed. *)
RECURSIVE QLeq(_, _)
QLeq(x, y) ==
    LET fx == x[1] \div x[2]
        fy == y[1] \div y[2]
        rx == x[1] % x[2]
        ry == y[1] % y[2]
    IN  IF fx # fy THEN fx < fy
        ELSE IF rx = 0 THEN TRUE
        ELSE IF ry = 0 THEN FALSE
        ELSE QLeq(<<y[2], ry>>, <<x[2], rx>>)

QLess(x, y) == x # y /\ QLeq(x, y)

(***************************************************************************)
(* Surds: [p, n, s] stands for  p / sqrt(n * PROD_{<<l, e>> in s} (l + e)) *)
(* with p a rational, n a positive integer and s a sequence of pairs       *)
(* <<eigenvalue, epsilon>>.  Zero is kept in one form.                     *)
(***************************************************************************)
SZero == [p |-> <<0, 1>>, n |-> 1, s |-> <<>>]

SOfQ(q) == [p |-> q, n |-> 1, s |-> <<>>]

SIsZero(x) == x.p[1] = 0

SMul(x, y) ==
    IF SIsZero(x) \/ SIsZero(y) THEN SZero
    ELSE [p |-> QMul(x.p, y.p), n |-> x.n * y.n, s |-> x.s \o y.s]

(* Terms of one matrix product share their radicand, or are zero. *)
SAdd(x, y) ==
    CASE SIsZero(x) -> y
      [] SIsZero(y) -> x
      [] x.n = y.n /\ x.s = y.s ->
            LET q == QAdd(x.p, y.p)
            IN  IF q[1] = 0 THEN SZero ELSE [p |-> q, n |-> x.n, s |-> x.s]

SSub(x, y) == SAdd(x, [y EXCEPT !.p = QNeg(y.p)])

(* Sums of f[1..n], split in halves to keep the recursion shallow. *)
RECURSIVE QSumRange(_, _, _)
QSumRange(f, lo, hi) ==
    IF lo > hi THEN <<0, 1>>
    ELSE IF lo = hi THEN f[lo]
    ELSE QAdd(QSumRange(f, lo, (lo + hi) \div 2), QSumRange(f, ((lo + hi) \div 2) + 1, hi))

QSum(f, n) == QSumRange(f, 1, n)

RECURSIVE SSumRange(_, _, _)
SSumRange(f, lo, hi) ==
    IF lo > hi THEN SZero
    ELSE IF lo = hi THEN f[lo]
    ELSE SAdd(SSumRange(f, lo, (lo + hi) \div 2), SSumRange(f, ((lo + hi) \div 2) + 1, hi))

SSum(f, n) == SSumRange(f, 1, n)

RECURSIVE ISumRange(_, _, _)
ISumRange(f, lo, hi) ==
    IF lo > hi THEN 0
    ELSE IF lo = hi THEN f[lo]
    ELSE ISumRange(f, lo, (lo + hi) \div 2) + ISumRange(f, ((lo + hi) \div 2) + 1, hi)

ISum(f, n) == ISumRange(f, 1, n)

(* A sequence given as a function over 1..n, as the tuple of its values. *)
tuple(f) == f \o <<>>

NRows(M) == Len(M)
NCols(M) == Len(M[1])

(* A @ B for matrices of surds. *)
matmul(A, B) ==
    tuple([i \in 1..NRows(A) |->
        tuple([j \in 1..NCols(B) |->
            SSum(tuple([k \in 1..NRows(B) |-> SMul(A[i][k], B[k][j])]), NRows(B))])])

ToS(M) == tuple([i \in 1..NRows(M) |-> tuple([j \in 1..NCols(M) |-> SOfQ(M[i][j])])])

(***************************************************************************)
(* State.  The first group is the script's interpreter state, the second   *)
(* the state of one call of each whitening routine on an image, the third  *)
(* the numerical library's unspecified choices (fixed for a run).          *)
(***************************************************************************)
VARIABLES
    pc,                     \* the statement of the script that runs next
    raised,                 \* the call that raised and ended the script, or ""
    disk,                   \* the files under DM/data: path -> file
    heap,                   \* the ndarray objects; a reference is an index
    input_geometry,         \* dict run -> ndarray reference
    final_geometry,         \* dict run -> dict label -> ndarray reference or bundle
    ts80_ordered_pairs,     \* dict run -> dict label -> 4-tuple
    ts140_ordered_pairs,
    input_shapes,           \* the shapes printed after whitening the inputs
    cursor,                 \* position of the running for loop
    data_vectors, geometry_labels, temperature_labels, pressure_labels,
    data_vectors_140, geometry_labels_140, temperature_labels_140,
    pressure_labels_140,
    img,        \* the image handed to the whitening routines
    epsilon,    \* the epsilon argument of the call
    retA,       \* <<frame of pca_whitening(img.reshape(-1, C), epsilon)>> once called
    retB,       \* <<frame of whiten_image(img, epsilon)>> once called
    solver,     \* which valid decomposition np.linalg.eigh returns
    ties        \* rank by which np.argsort orders equal keys

(***************************************************************************)
(* numpy array plumbing: C-order ravel and reshape.                        *)
(***************************************************************************)
shape3(a) == <<Len(a), Len(a[1]), Len(a[1][1])>>

ravel3(a) ==
    LET H == Len(a)
        W == Len(a[1])
        C == Len(a[1][1])
    IN  tuple([i \in 1..(H * W * C) |->
            a[((i - 1) \div (W * C)) + 1][(((i - 1) \div C) % W) + 1][((i - 1) % C) + 1]])

ravel2(M) ==
    tuple([i \in 1..(NRows(M) * NCols(M)) |->
        M[((i - 1) \div NCols(M)) + 1][((i - 1) % NCols(M)) + 1]])

reshape2(flat, R, C) ==
    tuple([r \in 1..R |-> tuple([c \in 1..C |-> flat[(r - 1) * C + c]])])

(* reshape with the first two axes exchanged *)
reshape3_swapped(flat, H, W, C) ==
    tuple([h \in 1..H |-> tuple([w \in 1..W |-> tuple([c \in 1..C |->
        flat[(w - 1) * H * C + (h - 1) * C + c]])])])

reshape3(flat, H, W, C) ==
    tuple([h \in 1..H |-> tuple([w \in 1..W |-> tuple([c \in 1..C |->
        flat[(h - 1) * W * C + (w - 1) * C + c]])])])

(***************************************************************************)
(* np.mean(X, axis=0), X - X_mean and np.cov(M, rowvar=False).             *)
(***************************************************************************)
mean_axis0(X) ==
    tuple([c \in 1..NCols(X) |->
        Q(ISum(tuple([k \in 1..NRows(X) |-> X[k][c]]), NRows(X)), NRows(X))])

(* the mean is computed but not subtracted *)
centered_not_subtracted(X, X_mean) ==
    tuple([k \in 1..NRows(X) |-> tuple([c \in 1..NCols(X) |-> QInt(X[k][c])])])

centered(X, X_mean) ==
    tuple([k \in 1..NRows(X) |->
        tuple([c \in 1..NCols(X) |-> QSub(QInt(X[k][c]), X_mean[c])])])

(* the biased estimator: divides by N *)
np_cov_biased(M) ==
    LET N == NRows(M)
        avg == tuple([c \in 1..NCols(M) |->
                    QDiv(QSum(tuple([k \in 1..N |-> M[k][c]]), N), QInt(N))])
        dev == tuple([k \in 1..N |-> tuple([c \in 1..NCols(M) |-> QSub(M[k][c], avg[c])])])
    IN  tuple([i \in 1..NCols(M) |->
            tuple([j \in 1..NCols(M) |->
                QDiv(QSum(tuple([k \in 1..N |-> QMul(dev[k][i], dev[k][j])]), N),
                     QInt(N))])])

(* np.cov removes the column averages itself and divides by N - 1. *)
np_cov(M) ==
    LET N == NRows(M)
        avg == tuple([c \in 1..NCols(M) |->
                    QDiv(QSum(tuple([k \in 1..N |-> M[k][c]]), N), QInt(N))])
        dev == tuple([k \in 1..N |-> tuple([c \in 1..NCols(M) |-> QSub(M[k][c], avg[c])])])
    IN  tuple([i \in 1..NCols(M) |->
            tuple([j \in 1..NCols(M) |->
                QDiv(QSum(tuple([k \in 1..N |-> QMul(dev[k][i], dev[k][j])]), N),
                     QInt(N - 1))])])

(***************************************************************************)
(* np.linalg.eigh.  Its contract: eigenvalues ascending, the columns of    *)
(* the second result orthonormal eigenvectors.  Which sign each column     *)
(* has, and which basis is returned inside an eigenspace of dimension      *)
(* > 1, is the solver's choice.  The model covers the covariance matrices  *)
(* that have a decomposition whose eigenvector directions are integer      *)
(* vectors with entries in EigenCoords; the column returned is             *)
(* u / sqrt(u.u).                                                          *)
(***************************************************************************)
EigenCoords == -2..2
ImgH == 2
ImgW == 3
ImgC == 3
GridH == 17
GridW == 12
MaxSolver == 1
EpsilonInv == 100000

dot(u, v) == ISum([i \in 1..Len(u) |-> u[i] * v[i]], Len(u))

RECURSIVE GCDSeq(_, _)
GCDSeq(u, n) == IF n = 0 THEN 0 ELSE GCD(GCDSeq(u, n - 1), Abs(u[n]))

(* The eigenvector directions considered: primitive integer vectors. *)
Directions == {u \in [1..ImgC -> EigenCoords] : GCDSeq(u, ImgC) = 1}

RECURSIVE LCMSeq(_, _)
LCMSeq(d, n) ==
    IF n = 0 THEN 1
    ELSE LET l == LCMSeq(d, n - 1) IN (l \div GCD(l, d[n])) * d[n]

(* A = scaled(A).m / scaled(A).den with m an integer matrix. *)
scaled(A) ==
    LET D == Len(A)
        den == LCMSeq(tuple([i \in 1..(D * D) |-> A[((i - 1) \div D) + 1][((i - 1) % D) + 1][2]]), D * D)
    IN  [den |-> den,
         m |-> tuple([i \in 1..D |-> tuple([j \in 1..D |-> A[i][j][1] * (den \div A[i][j][2])])])]

matvec(M, u) ==
    tuple([i \in 1..Len(u) |-> ISum([j \in 1..Len(u) |-> M[i][j] * u[j]], Len(u))])

(* u is an eigenvector of the integer matrix M: M u = ((u.Mu)/(u.u)) u. *)
IsEigenvector(M, u) ==
    LET Mu == matvec(M, u)
        uu == dot(u, u)
        uMu == dot(u, Mu)
    IN  \A i \in 1..Len(u) : uu * Mu[i] = uMu * u[i]

(* The eigen-directions of M, each with its eigenvalue num/den of M. *)
EigenPairs(M) ==
    { [u |-> u, num |-> dot(u, matvec(M, u)), den |-> dot(u, u)] :
        u \in {v \in Directions : IsEigenvector(M, v)} }

(* Sequences of k pairwise orthogonal eigen-directions, eigenvalues ascending. *)
RECURSIVE OrthoChains(_, _)
OrthoChains(E, k) ==
    IF k = 0 THEN {<<>>}
    ELSE UNION { { Append(ch, e) :
                     e \in { f \in E :
                               /\ \A i \in 1..Len(ch) : dot(ch[i].u, f.u) = 0
                               /\ Len(ch) > 0 =>
                                    ch[Len(ch)].num * f.den <= f.num * ch[Len(ch)].den } }
                 : ch \in OrthoChains(E, k - 1) }

Decompositions(A) == OrthoChains(EigenPairs(scaled(A).m), Len(A))

RECURSIVE Pick(_, _)
Pick(S, k) ==
    LET x == CHOOSE y \in S : TRUE
    IN  IF k = 0 THEN x ELSE Pick(S \ {x}, k - 1)

eigh(A, lib) ==
    LET cands == Decompositions(A)
        ch == Pick(cands, lib.solver % Cardinality(cands))
        den == scaled(A).den
    IN  [w |-> tuple([i \in 1..Len(A) |-> Q(ch[i].num, ch[i].den * den)]),
         v |-> tuple([c \in 1..Len(A) |->
                  tuple([i \in 1..Len(A) |->
                      IF ch[i].u[c] = 0 THEN SZero
                      ELSE [p |-> QInt(ch[i].u[c]), n |-> ch[i].den, s |-> <<>>]])])]

(***************************************************************************)
(* np.argsort (default kind, which is not stable): an ascending order of   *)
(* the indices; equal keys are ordered by the rank lib.ties.               *)
(***************************************************************************)
IndexOrders(n) == {f \in [1..n -> 1..n] : \A i, j \in 1..n : f[i] = f[j] => i = j}

argsort(a, lib) ==
    CHOOSE idx \in IndexOrders(Len(a)) :
        \A i, j \in 1..Len(a) :
            i < j => \/ QLess(a[idx[i]], a[idx[j]])
                     \/ a[idx[i]] = a[idx[j]] /\ lib.ties[idx[i]] < lib.ties[idx[j]]

(* the reversal left out *)
reversed_left_out(a) == a

(* a[::-1] *)
reversed(a) == tuple([i \in 1..Len(a) |-> a[Len(a) + 1 - i]])

(* the square root left out: np.diag(1.0 / (eigenvalues + eps)) *)
inv_diag_no_sqrt(eigenvalues, eps) ==
    tuple([i \in 1..Len(eigenvalues) |->
        tuple([j \in 1..Len(eigenvalues) |->
            IF i = j
            THEN [p |-> <<1, 1>>, n |-> 1, s |-> << <<eigenvalues[i], eps>>, <<eigenvalues[i], eps>> >>]
            ELSE SZero])])

(* np.diag(1.0 / np.sqrt(eigenvalues + eps)) *)
inv_sqrt_diag(eigenvalues, eps) ==
    tuple([i \in 1..Len(eigenvalues) |->
        tuple([j \in 1..Len(eigenvalues) |->
            IF i = j
            THEN [p |-> <<1, 1>>, n |-> 1, s |-> << <<eigenvalues[i], eps>> >>]
            ELSE SZero])])

(***************************************************************************)
(* pca_whitening(X, epsilon): the locals at its return statement.          *)
(***************************************************************************)
pca_whitening(X, eps, lib) ==
    LET X_mean == mean_axis0(X)
        X_centered == centered(X, X_mean)
        cov == np_cov(X_centered)
        eh == eigh(cov, lib)
        idx == reversed(argsort(eh.w, lib))
        eigenvalues == tuple([i \in 1..Len(idx) |-> eh.w[idx[i]]])
        eigenvectors == tuple([c \in 1..Len(idx) |-> tuple([i \in 1..Len(idx) |-> eh.v[c][idx[i]]])])
        whitening_matrix == matmul(eigenvectors, inv_sqrt_diag(eigenvalues, eps))
        X_whitened == matmul(ToS(X_centered), whitening_matrix)
    IN  [eigh |-> eh, idx |-> idx,
         eigenvalues |-> eigenvalues, eigenvectors |-> eigenvectors,
         X_whitened |-> X_whitened,
         params |-> [mean |-> X_mean, matrix |-> whitening_matrix]]

(***************************************************************************)
(* whiten_image(img, epsilon): the locals at its return statement.         *)
(***************************************************************************)
whiten_image(image, eps, lib) ==
    LET H == shape3(image)[1]
        W == shape3(image)[2]
        C == shape3(image)[3]
        X == reshape2(ravel3(image), H * W, C)
        X_mean == mean_axis0(X)
        X_centered == centered(X, X_mean)
        cov == np_cov(X_centered)
        eh == eigh(cov, lib)
        idx == reversed(argsort(eh.w, lib))
        eigenvalues == tuple([i \in 1..Len(idx) |-> eh.w[idx[i]]])
        eigenvectors == tuple([c \in 1..Len(idx) |-> tuple([i \in 1..Len(idx) |-> eh.v[c][idx[i]]])])
        whitening_matrix == matmul(eigenvectors, inv_sqrt_diag(eigenvalues, eps))
        X_whitened == matmul(ToS(X_centered), whitening_matrix)
        whitened == reshape3(ravel2(X_whitened), H, W, C)
    IN  [eigh |-> eh, idx |-> idx,
         eigenvalues |-> eigenvalues, eigenvectors |-> eigenvectors,
         whitened |-> whitened,
         params |-> [mean |-> X_mean, whitening_matrix |-> whitening_matrix]]

(***************************************************************************)
(* The images the whitening routines are applied to.                       *)
(***************************************************************************)

Coefs == {0, 1}

(* Channel c of pixel (h, w) is a[c]*h + b[c]*w + g[c]*(2h-(H-1))*(2w-(W-1)) + c,
   h and w counted from 0: three mutually uncorrelated patterns over the grid. *)
PatternImage(H, W, a, b, g) ==
    tuple([h \in 1..H |-> tuple([w \in 1..W |-> tuple([c \in 1..ImgC |->
        a[c] * (h - 1) + b[c] * (w - 1)
          + g[c] * (2 * (h - 1) - (H - 1)) * (2 * (w - 1) - (W - 1)) + (c - 1)])])])

(* np.arange(H*W*C).reshape(H, W, C) *)
arange_image(H, W, C) == reshape3(tuple([i \in 1..(H * W * C) |-> i - 1]), H, W, C)

rows_of(image) ==
    reshape2(ravel3(image), shape3(image)[1] * shape3(image)[2], shape3(image)[3])

covariance_of(image) ==
    np_cov(centered(rows_of(image), mean_axis0(rows_of(image))))

(* The second pattern leaves the first channel alone; the third pattern is
   absent or confined to the last channel. *)
FirstChannelFree == { b \in [1..ImgC -> Coefs] : b[1] = 0 }

LastChannel == { [c \in 1..ImgC |-> IF c = ImgC THEN k ELSE 0] : k \in Coefs }

Images ==
    { im \in { PatternImage(ImgH, ImgW, a, b, g) :
                  a \in [1..ImgC -> Coefs], b \in FirstChannelFree,
                  g \in LastChannel }
               \cup {arange_image(GridH, GridW, ImgC)} :
        Decompositions(covariance_of(im)) # {} }

(* The orders np.argsort may give equal keys: by index, or by index reversed. *)
TieOrders == { tuple([i \in 1..ImgC |-> i]), tuple([i \in 1..ImgC |-> ImgC + 1 - i]) }

Epsilons == {<<1, EpsilonInv>>, <<1, 10>>}

loaded == <<input_geometry, final_geometry, ts80_ordered_pairs, ts140_ordered_pairs>>
lists_80 == <<data_vectors, geometry_labels, temperature_labels, pressure_labels>>
lists_140 == <<data_vectors_140, geometry_labels_140, temperature_labels_140,
               pressure_labels_140>>
script == <<pc, raised, cursor, disk, heap, loaded, input_shapes, lists_80, lists_140>>
harness == <<img, epsilon, retA, retB>>
vars == <<script, harness, solver, ties>>

(* The behaviour of the installed numerical library. *)
numpy == [solver |-> solver, ties |-> ties]

(* The script has not been started: the routines are called on their own. *)
NotStarted ==
    /\ pc = "harness"
    /\ raised = ""
    /\ disk = <<>>
    /\ heap = <<>>
    /\ input_geometry = <<>>
    /\ final_geometry = <<>>
    /\ ts80_ordered_pairs = <<>>
    /\ ts140_ordered_pairs = <<>>
    /\ input_shapes = <<>>
    /\ cursor = 0
    /\ data_vectors = <<>>
    /\ geometry_labels = <<>>
    /\ temperature_labels = <<>>
    /\ pressure_labels = <<>>
    /\ data_vectors_140 = <<>>
    /\ geometry_labels_140 = <<>>
    /\ temperature_labels_140 = <<>>
    /\ pressure_labels_140 = <<>>

WInit ==
    /\ img \in Images
    /\ epsilon \in Epsilons
    /\ solver \in 0..MaxSolver
    /\ ties \in TieOrders
    /\ retA = <<>>
    /\ retB = <<>>
    /\ NotStarted

CallPcaWhitening ==
    /\ retA = <<>>
    /\ retA' = <<pca_whitening(rows_of(img), epsilon, numpy)>>
    /\ UNCHANGED <<img, epsilon, retB, solver, ties, script>>

CallWhitenImage ==
    /\ retA # <<>>
    /\ retB = <<>>
    /\ retB' = <<whiten_image(img, epsilon, numpy)>>
    /\ UNCHANGED <<img, epsilon, retA, solver, ties, script>>

WNext == CallPcaWhitening \/ CallWhitenImage

WhitenSpec == WInit /\ [][WNext]_vars

(***************************************************************************)
(* Text.  A str is the sequence of its characters, so that formatting,     *)
(* slicing, startswith and split act on characters as Python's do.         *)
(***************************************************************************)
Digits == <<"0", "1", "2", "3", "4", "5", "6", "7", "8", "9">>

(* str(n) of a non-negative int: its decimal digits *)
RECURSIVE str(_)
str(n) == IF n < 10 THEN <<Digits[n + 1]>> ELSE str(n \div 10) \o <<Digits[(n % 10) + 1]>>

(* s[a:b] for 0 <= a <= b *)
slice(s, a, b) ==
    IF a >= Len(s) \/ a >= b THEN <<>>
    ELSE SubSeq(s, a + 1, IF b < Len(s) THEN b ELSE Len(s))

(* every str begins with the prefix *)
startswith_anything(s, prefix) == TRUE

(* s.startswith(prefix) *)
startswith(s, prefix) == slice(s, 0, Len(prefix)) = prefix

(* s.split(sep) for a separator of one character: the parts, left to right *)
RECURSIVE split(_, _)
split(s, sep) ==
    IF \A i \in 1..Len(s) : s[i] # sep THEN <<s>>
    ELSE LET i == CHOOSE k \in 1..Len(s) : s[k] = sep /\ \A m \in 1..(k - 1) : s[m] # sep
         IN  <<slice(s, 0, i - 1)>> \o split(slice(s, i, Len(s)), sep)

(***************************************************************************)
(* Dictionaries keep insertion order: a dict is the sequence of its        *)
(* <<key, value>> items.                                                   *)
(***************************************************************************)
dict_keys(d) == tuple([n \in 1..Len(d) |-> d[n][1]])

dict_has(d, key) == \E n \in 1..Len(d) : d[n][1] = key

dict_get(d, key) == d[CHOOSE n \in 1..Len(d) : d[n][1] = key][2]

(* d[key] = value *)
dict_set(d, key, value) ==
    IF dict_has(d, key)
    THEN tuple([n \in 1..Len(d) |-> IF d[n][1] = key THEN <<key, value>> ELSE d[n]])
    ELSE Append(d, <<key, value>>)

(***************************************************************************)
(* The data set: NumRuns runs (64 in the script), the two time steps, and  *)
(* the pressure and temperature names of the script that the model keeps.  *)
(***************************************************************************)
NumRuns == 2
MaxFiles == 2
NumSmesh == 3
NumParts == 3
SmeshHeader == 5
ResultHeader == 1
Perplexity == 30

timesteps == <<80, 140>>
pressures == << <<"p", "1">> >>
temperatures == << <<"t", "1">>, <<"t", "2">> >>

(* f"run{i}" *)
run_dir(i) == <<"r", "u", "n">> \o str(i)

(* f"smesh.1.{j}.txt" *)
smesh_name(j) ==
    <<"s", "m", "e", "s", "h", ".", "1", ".">> \o str(j) \o <<".", "t", "x", "t">>

(* f"result_{timestep}_{pressure}_{temperature}_{i}": the components exchanged *)
result_name_pressure_first(timestep, temperature, pressure, i) ==
    <<"r", "e", "s", "u", "l", "t", "_">> \o str(timestep) \o <<"_">> \o pressure
        \o <<"_">> \o temperature \o <<"_">> \o str(i)

(* f"result_{timestep}_{temperature}_{pressure}_{i}" *)
result_name(timestep, temperature, pressure, i) ==
    <<"r", "e", "s", "u", "l", "t", "_">> \o str(timestep) \o <<"_">> \o temperature
        \o <<"_">> \o pressure \o <<"_">> \o str(i)

(* f"{timestep}_{temperature}_{pressure}" *)
label_of(timestep, temperature, pressure) ==
    str(timestep) \o <<"_">> \o temperature \o <<"_">> \o pressure

(* A path is the sequence of its components below DM/data. *)
smesh_path(i, j) == <<"Input_geometry", run_dir(i), smesh_name(j)>>

result_path(timestep, temperature, pressure, i) ==
    <<"final_geometry", result_name(timestep, temperature, pressure, i)>>

(* The nest of loops over timesteps, pressures and temperatures, in order. *)
combos ==
    LET P == Len(pressures)
        T == Len(temperatures)
    IN  tuple([n \in 1..(Len(timesteps) * P * T) |->
            [timestep |-> timesteps[((n - 1) \div (P * T)) + 1],
             pressure |-> pressures[(((n - 1) \div T) % P) + 1],
             temperature |-> temperatures[((n - 1) % T) + 1]]])

(***************************************************************************)
(* Files.  A file on disk is described by its layout, its condition and    *)
(* the number that seeds its values; readlines expands it to its lines,    *)
(* each line the sequence of its whitespace-separated tokens, and a token  *)
(* is <<"num", v>> for the numeral of v and <<"txt", 0>> for other text.   *)
(***************************************************************************)
Header == << <<"txt", 0>>, <<"txt", 0>> >>

(* The three images of a file differ in the rank of their covariance. *)
Patterns ==
    << [a |-> <<1, 0, 0>>, b |-> <<0, 1, 0>>, g |-> <<0, 0, 1>>],
       [a |-> <<1, 0, 0>>, b |-> <<0, 1, 1>>, g |-> <<0, 0, 0>>],
       [a |-> <<1, 1, 1>>, b |-> <<0, 0, 0>>, g |-> <<0, 0, 0>>] >>

mesh_image(seed, k) ==
    LET base == PatternImage(ImgH, ImgW, Patterns[k].a, Patterns[k].b, Patterns[k].g)
    IN  tuple([h \in 1..ImgH |-> tuple([w \in 1..ImgW |-> tuple([c \in 1..ImgC |->
            base[h][w][c] + seed])])])

(* One line per grid point; the tokens of a line are its numerals. *)
data_lines(image, extra) ==
    LET rows == reshape2(ravel3(image), ImgH * ImgW, ImgC)
    IN  tuple([r \in 1..(ImgH * ImgW) |->
            tuple([c \in 1..(ImgC + extra) |->
                IF c <= ImgC THEN <<"num", rows[r][c]>> ELSE <<"num", 0>>])])

spoiled(lines, kind) ==
    IF kind = "non_numeric"
        THEN tuple([r \in 1..Len(lines) |->
                 IF r = 1 THEN <<Header[1]>> \o SubSeq(lines[r], 2, Len(lines[r]))
                 ELSE lines[r]])
    ELSE IF kind = "short" THEN SubSeq(lines, 1, Len(lines) - 1)
    ELSE lines

readlines(f) ==
    IF f.layout = "smesh"
    THEN tuple([n \in 1..SmeshHeader |-> Header])
           \o spoiled(data_lines(mesh_image(f.seed, (f.seed % NumParts) + 1), 1), f.kind)
           \o (IF f.kind = "short" THEN <<>> ELSE <<Header>>)
    ELSE tuple([n \in 1..ResultHeader |-> Header])
           \o spoiled(data_lines(mesh_image(f.seed, 1), 0)
                        \o data_lines(mesh_image(f.seed, 2), 0)
                        \o data_lines(mesh_image(f.seed, 3), 0), f.kind)

(* file_path.exists() *)
path_exists(d, path) == path \in DOMAIN d

(* open(file_path, 'r') followed by readlines(): <<>> when open raises *)
open_readlines(d, path) == IF path \in DOMAIN d THEN <<readlines(d[path])>> ELSE <<>>

(***************************************************************************)
(* Parsing.  An operator that can raise gives <<>> when it raises and      *)
(* <<value>> when it returns value.                                        *)
(***************************************************************************)
(* every token converts *)
is_float_lenient(tok) == TRUE

(* float(tok) succeeds *)
is_float(tok) == tok[1] = "num"

(* np.array(rows, dtype=float) *)
np_array_float(rows) ==
    IF \/ \E r \in 1..Len(rows) : \E c \in 1..Len(rows[r]) : ~is_float(rows[r][c])
       \/ \E r \in 1..Len(rows) : Len(rows[r]) # Len(rows[1])
    THEN <<>>
    ELSE << tuple([r \in 1..Len(rows) |-> tuple([c \in 1..Len(rows[r]) |-> rows[r][c][2]])]) >>

(* np.array([...lines[5:209]...], dtype=float)[:, :-1].reshape(17, 12, 3) *)
load_smesh(lines) ==
    LET arr == np_array_float(slice(lines, SmeshHeader, SmeshHeader + ImgH * ImgW))
    IN  IF arr = <<>> THEN <<>>
        ELSE IF Len(arr[1]) = 0 \/ Len(arr[1][1]) = 0 THEN <<>>
        ELSE LET content == tuple([r \in 1..Len(arr[1]) |->
                                SubSeq(arr[1][r], 1, Len(arr[1][r]) - 1)])
             IN  IF Len(content) * Len(content[1]) # ImgH * ImgW * ImgC THEN <<>>
                 ELSE <<reshape3(ravel2(content), ImgH, ImgW, ImgC)>>

(* np.stack([arr.reshape(17, 12, 3) for arr in np.split(content, 3)]) of
   np.array([...lines[1:]...], dtype=float) *)
load_result(lines) ==
    LET arr == np_array_float(slice(lines, ResultHeader, Len(lines)))
    IN  IF arr = <<>> THEN <<>>
        ELSE IF Len(arr[1]) % NumParts # 0 THEN <<>>
        ELSE IF Len(arr[1]) = 0 THEN <<>>
        ELSE LET n == Len(arr[1]) \div NumParts
             IN  IF n * Len(arr[1][1]) # ImgH * ImgW * ImgC THEN <<>>
                 ELSE << tuple([k \in 1..NumParts |->
                            reshape3(ravel2(SubSeq(arr[1], (k - 1) * n + 1, k * n)),
                                     ImgH, ImgW, ImgC)]) >>

(***************************************************************************)
(* Objects.  An ndarray on the heap holds float values, kept exactly:      *)
(* integers as read from a file (exact = TRUE) or surds as computed by a   *)
(* whitening routine (exact = FALSE).  A value <<"ndarray", ref>> refers   *)
(* to heap[ref].                                                           *)
(***************************************************************************)
ndarray(data, exact) == [exact |-> exact, data |-> data]

shape4(arr) == <<Len(arr.data)>> \o shape3(arr.data[1])

(***************************************************************************)
(* load_input_geometry(folder_path) on the disk d with heap h.             *)
(***************************************************************************)
load_input_geometry(d, h) ==
    LET file_contents ==
            tuple([i \in 1..NumRuns |-> tuple([j \in 1..NumSmesh |->
                LET lines == open_readlines(d, smesh_path(i, j))
                IN  IF lines = <<>> THEN <<>> ELSE load_smesh(lines[1])])])
    IN  IF \E i \in 1..NumRuns : \E j \in 1..NumSmesh : file_contents[i][j] = <<>>
        THEN [raised |-> TRUE, value |-> <<>>, heap |-> h]
        ELSE [raised |-> FALSE,
              value |-> tuple([i \in 1..NumRuns |-> <<run_dir(i), <<"ndarray", Len(h) + i>> >>]),
              heap |-> h \o tuple([i \in 1..NumRuns |->
                          ndarray(tuple([j \in 1..NumSmesh |-> file_contents[i][j][1]]), TRUE)])]

(***************************************************************************)
(* load_final_geometry(parent_folder): the runs from i on, acc holding the *)
(* mapping and the heap built so far.                                      *)
(***************************************************************************)
RECURSIVE load_final_runs(_, _, _)
load_final_runs(d, i, acc) ==
    IF i > NumRuns \/ acc.raised THEN acc
    ELSE LET Found(c) ==
                 path_exists(d, result_path(c.timestep, c.temperature, c.pressure, i))
             found == SelectSeq(combos, Found)
             contents ==
                 tuple([k \in 1..Len(found) |->
                     LET lines == open_readlines(d,
                                      result_path(found[k].timestep, found[k].temperature,
                                                  found[k].pressure, i))
                     IN  IF lines = <<>> THEN <<>> ELSE load_result(lines[1])])
             run_files ==
                 tuple([k \in 1..Len(found) |->
                     <<label_of(found[k].timestep, found[k].temperature, found[k].pressure),
                       <<"ndarray", Len(acc.heap) + k>> >>])
         IN  IF \E k \in 1..Len(found) : contents[k] = <<>>
             THEN [raised |-> TRUE, value |-> <<>>, heap |-> acc.heap]
             ELSE load_final_runs(d, i + 1,
                      [raised |-> FALSE,
                       value |-> Append(acc.value, <<run_dir(i), run_files>>),
                       heap |-> acc.heap \o tuple([k \in 1..Len(found) |->
                                    ndarray(contents[k][1], TRUE)])])

load_final_geometry(d, h) ==
    load_final_runs(d, 1, [raised |-> FALSE, value |-> <<>>, heap |-> h])

(***************************************************************************)
(* create_ordered_pairs(input_geom, output_geom)                           *)
(***************************************************************************)
(* output_key[3:5] where output_key[4:6] is meant *)
temp_140_sliced_as_80(output_key) == slice(output_key, 3, 5)

temp_80(output_key) == slice(output_key, 3, 5)
pressure_80(output_key) == slice(output_key, 6, 8)
temp_140(output_key) == slice(output_key, 4, 6)
pressure_140(output_key) == slice(output_key, 7, 9)

ts80_run_subdict(input_geom_run, output_geometries) ==
    LET If(item) == startswith(item[1], <<"8", "0">>)
        mine == SelectSeq(output_geometries, If)
    IN  tuple([n \in 1..Len(mine) |->
            <<mine[n][1],
              <<input_geom_run, temp_80(mine[n][1]), pressure_80(mine[n][1]), mine[n][2]>> >>])

ts140_run_subdict(input_geom_run, output_geometries) ==
    LET Elif(item) == /\ ~startswith(item[1], <<"8", "0">>)
                      /\ startswith(item[1], <<"1", "4", "0">>)
        mine == SelectSeq(output_geometries, Elif)
    IN  tuple([n \in 1..Len(mine) |->
            <<mine[n][1],
              <<input_geom_run, temp_140(mine[n][1]), pressure_140(mine[n][1]), mine[n][2]>> >>])

create_ordered_pairs(input_geom, output_geom) ==
    LET keys == dict_keys(input_geom)
    IN  [ts80 |-> tuple([n \in 1..Len(keys) |->
                     <<keys[n], ts80_run_subdict(dict_get(input_geom, keys[n]),
                                                 dict_get(output_geom, keys[n]))>>]),
         ts140 |-> tuple([n \in 1..Len(keys) |->
                     <<keys[n], ts140_run_subdict(dict_get(input_geom, keys[n]),
                                                  dict_get(output_geom, keys[n]))>>])]

(***************************************************************************)
(* The whitening loop over final_geometry: its body for one slot.          *)
(***************************************************************************)
DefaultEpsilon == <<1, EpsilonInv>>

ResultImages ==
    { mesh_image(100 + n, k) : n \in 1..(NumRuns * Len(combos)), k \in 1..NumParts }

Libs == [solver : 0..MaxSolver, ties : TieOrders]

(* whiten_image(img) of the images of the result files, computed once *)
whitened_result_images ==
    [key \in ResultImages \X Libs |-> whiten_image(key[1], DefaultEpsilon, key[2])] @@ <<>>

whiten_image_default(image, lib) == whitened_result_images[<<image, lib>>]

(* whitened_images and pca_params_list at the end of the loop over images:
   item n is <<w_img, params>> of images[n] *)
whitened_list(images, lib) ==
    tuple([n \in 1..Len(images) |-> whiten_image_default(images[n], lib)])

(* the whitened values written into the array `images` itself *)
bundle_in_place(h, images_ref, results) ==
    [heap |-> [h EXCEPT ![images_ref[2]] =
                  ndarray(tuple([n \in 1..Len(results) |-> results[n].whitened]), FALSE)],
     value |-> <<"dict", images_ref,
                 tuple([n \in 1..Len(results) |-> results[n].params])>>]

(* {"whitened": np.array(whitened_images), "pca_params": pca_params_list},
   and the heap with the new array *)
bundle(h, images_ref, results) ==
    [heap |-> Append(h, ndarray(tuple([n \in 1..Len(results) |-> results[n].whitened]),
                                FALSE)),
     value |-> <<"dict", <<"ndarray", Len(h) + 1>>,
                 tuple([n \in 1..Len(results) |-> results[n].params])>>]

(* The body of the loop for the array referred to by images_ref. *)
whiten_slot(h, images_ref, lib) ==
    bundle(h, images_ref, whitened_list(h[images_ref[2]].data, lib))

(* The <<run, key>> the two nested for loops visit, in order. *)
RECURSIVE slots_from(_, _)
slots_from(fg, r) ==
    IF r > Len(fg) THEN <<>>
    ELSE tuple([l \in 1..Len(fg[r][2]) |-> <<fg[r][1], fg[r][2][l][1]>>]) \o slots_from(fg, r + 1)

slots(fg) == slots_from(fg, 1)

(***************************************************************************)
(* The collection loops: the position <<r, l, i>> of the next append at or *)
(* after pos, <<>> when the loops end before one.                          *)
(***************************************************************************)
RECURSIVE next_sample(_, _, _, _)
next_sample(fg, h, prefix, pos) ==
    IF pos[1] > Len(fg) THEN <<>>
    ELSE LET run_dict == fg[pos[1]][2]
         IN  IF pos[2] > Len(run_dict) THEN next_sample(fg, h, prefix, <<pos[1] + 1, 1, 1>>)
             ELSE LET label == run_dict[pos[2]][1]
                      content == run_dict[pos[2]][2]
                  IN  IF \/ ~startswith(label, prefix)
                         \/ Len(split(label, "_")) # 3
                         \/ pos[3] > shape4(h[content[2][2]])[1]
                      THEN next_sample(fg, h, prefix, <<pos[1], pos[2] + 1, 1>>)
                      ELSE pos

(* What the body of the innermost loop appends at position pos. *)
sample_at(fg, h, pos) ==
    LET label == fg[pos[1]][2][pos[2]][1]
        content == fg[pos[1]][2][pos[2]][2]
        parts == split(label, "_")
    IN  [vec |-> ravel3(h[content[2][2]].data[pos[3]]),
         run |-> fg[pos[1]][1], temp |-> parts[2], pressure |-> parts[3]]

(* TSNE(perplexity=30).fit_transform(X) on n samples returns (TRUE) or
   raises (FALSE): it raises on no sample, and on no more samples than the
   perplexity it raises or not with the version of the library. *)
tsne_outcomes(n) ==
    IF n = 0 THEN {FALSE} ELSE IF n <= Perplexity THEN {TRUE, FALSE} ELSE {TRUE}

(***************************************************************************)
(* The disks the script is run on.  A smesh file is sound unless it is the *)
(* one spoiled file; result files are absent but those of `present`, one   *)
(* of which may be the spoiled file.  At most MaxFiles files are spoiled   *)
(* or present result files.                                                *)
(***************************************************************************)
SmeshFiles ==
    { [path |-> smesh_path(i, j), layout |-> "smesh", seed |-> (i - 1) * NumSmesh + j] :
        i \in 1..NumRuns, j \in 1..NumSmesh }

ResultFiles ==
    { [path |-> result_path(combos[c].timestep, combos[c].temperature, combos[c].pressure, i),
       layout |-> "result", seed |-> 100 + (i - 1) * Len(combos) + c] :
        i \in 1..NumRuns, c \in 1..Len(combos) }

Conditions == {"absent", "non_numeric", "short"}

MakeDisk(spoiled_files, how, present) ==
    LET files == { f \in SmeshFiles \cup present : ~(f \in spoiled_files /\ how = "absent") }
    IN  [p \in {f.path : f \in files} |->
            LET f == CHOOSE g \in files : g.path = p
            IN  [layout |-> f.layout, seed |-> f.seed,
                 kind |-> IF f \in spoiled_files THEN how ELSE "ok"]]

Scenarios ==
    { s \in ({{}} \cup {{f} : f \in SmeshFiles \cup ResultFiles})
              \X Conditions
              \X {p \in SUBSET ResultFiles : Cardinality(p) <= MaxFiles} :
        /\ s[1] \subseteq SmeshFiles \cup s[3]
        /\ s[1] \cap ResultFiles # {} => s[2] # "absent"
        /\ Cardinality(s[1] \cap SmeshFiles) + Cardinality(s[3]) <= MaxFiles }

Disks == { MakeDisk(s[1], s[2], s[3]) : s \in Scenarios }

(* The library's choices show in the whitening loop only: a run that a
   spoiled file ends before it is taken with one of them. *)
LibsFor(d) ==
    IF \E p \in DOMAIN d : d[p].kind # "ok" THEN {CHOOSE lib \in Libs : TRUE}
    ELSE IF \E f \in SmeshFiles : f.path \notin DOMAIN d THEN {CHOOSE lib \in Libs : TRUE}
    ELSE Libs

Init ==
    /\ pc = "load_input_geometry"
    /\ raised = ""
    /\ disk \in Disks
    /\ heap = <<>>
    /\ input_geometry = <<>>
    /\ final_geometry = <<>>
    /\ ts80_ordered_pairs = <<>>
    /\ ts140_ordered_pairs = <<>>
    /\ input_shapes = <<>>
    /\ cursor = 0
    /\ data_vectors = <<>>
    /\ geometry_labels = <<>>
    /\ temperature_labels = <<>>
    /\ pressure_labels = <<>>
    /\ data_vectors_140 = <<>>
    /\ geometry_labels_140 = <<>>
    /\ temperature_labels_140 = <<>>
    /\ pressure_labels_140 = <<>>
    /\ img = <<>>
    /\ epsilon = DefaultEpsilon
    /\ retA = <<>>
    /\ retB = <<>>
    /\ \E lib \in LibsFor(disk) : solver = lib.solver /\ ties = lib.ties

(* input_geometry = load_input_geometry("DM/data/Input_geometry") *)
LoadInputGeometry ==
    /\ pc = "load_input_geometry"
    /\ LET r == load_input_geometry(disk, heap)
       IN  IF r.raised
           THEN /\ pc' = "aborted"
                /\ raised' = "load_input_geometry"
                /\ UNCHANGED <<heap, input_geometry>>
           ELSE /\ pc' = "load_final_geometry"
                /\ input_geometry' = r.value
                /\ heap' = r.heap
                /\ UNCHANGED raised
    /\ UNCHANGED <<disk, final_geometry, ts80_ordered_pairs, ts140_ordered_pairs,
                   input_shapes, cursor, lists_80, lists_140, harness, solver, ties>>

(* final_geometry = load_final_geometry("DM/data") *)
LoadFinalGeometry ==
    /\ pc = "load_final_geometry"
    /\ LET r == load_final_geometry(disk, heap)
       IN  IF r.raised
           THEN /\ pc' = "aborted"
                /\ raised' = "load_final_geometry"
                /\ UNCHANGED <<heap, final_geometry>>
           ELSE /\ pc' = "create_ordered_pairs"
                /\ final_geometry' = r.value
                /\ heap' = r.heap
                /\ UNCHANGED raised
    /\ UNCHANGED <<disk, input_geometry, ts80_ordered_pairs, ts140_ordered_pairs,
                   input_shapes, cursor, lists_80, lists_140, harness, solver, ties>>

(* ts80_ordered_pairs, ts140_ordered_pairs = create_ordered_pairs(...) *)
CreateOrderedPairs ==
    /\ pc = "create_ordered_pairs"
    /\ LET r == create_ordered_pairs(input_geometry, final_geometry)
       IN  /\ ts80_ordered_pairs' = r.ts80
           /\ ts140_ordered_pairs' = r.ts140
    /\ pc' = "whiten_inputs"
    /\ UNCHANGED <<raised, disk, heap, input_geometry, final_geometry,
                   input_shapes, cursor, lists_80, lists_140, harness, solver, ties>>

(* input_data = np.vstack([arr.reshape(3, -1) ...]); whitened_inputs,
   pca_input_params = pca_whitening(input_data); the three prints.  Only
   the shapes of the results are used, and only they are kept. *)
WhitenInputs ==
    /\ pc = "whiten_inputs"
    /\ LET N == ISum(tuple([n \in 1..Len(input_geometry) |->
                      shape4(heap[input_geometry[n][2][2]])[1]]), Len(input_geometry))
           s == shape4(heap[input_geometry[1][2][2]])
           D == s[2] * s[3] * s[4]
       IN  input_shapes' = [whitened |-> <<N, D>>, mean |-> <<D>>, matrix |-> <<D, D>>]
    /\ pc' = "whiten_final"
    /\ cursor' = 1
    /\ UNCHANGED <<raised, disk, heap, loaded, lists_80, lists_140, harness, solver, ties>>

(* final_geometry[run][key] = r.value, the heap becoming r.heap *)
slot_assigned(run, key, r) ==
    /\ heap' = r.heap
    /\ final_geometry' =
           dict_set(final_geometry, run,
                    dict_set(dict_get(final_geometry, run), key, r.value))

(* One pass of the body of `for run in final_geometry: for key in
   final_geometry[run]:`, cursor counting the slots visited. *)
WhitenFinalSlot ==
    /\ pc = "whiten_final"
    /\ cursor <= Len(slots(final_geometry))
    /\ LET run == slots(final_geometry)[cursor][1]
           key == slots(final_geometry)[cursor][2]
       IN  slot_assigned(run, key,
               whiten_slot(heap, dict_get(dict_get(final_geometry, run), key), numpy))
    /\ cursor' = cursor + 1
    /\ UNCHANGED <<pc, raised, disk, input_geometry, ts80_ordered_pairs,
                   ts140_ordered_pairs, input_shapes, lists_80, lists_140,
                   harness, solver, ties>>

(* The whitening loop ends; the four lists of time step 80 are created. *)
StartCollection80 ==
    /\ pc = "whiten_final"
    /\ cursor > Len(slots(final_geometry))
    /\ pc' = "collect_80"
    /\ cursor' = <<1, 1, 1>>
    /\ data_vectors' = <<>>
    /\ geometry_labels' = <<>>
    /\ temperature_labels' = <<>>
    /\ pressure_labels' = <<>>
    /\ UNCHANGED <<raised, disk, heap, loaded, input_shapes, lists_140,
                   harness, solver, ties>>

(* One pass of the body of `for i in range(n_images):`, time step 80. *)
Collect80 ==
    /\ pc = "collect_80"
    /\ LET pos == next_sample(final_geometry, heap, <<"8", "0">>, cursor)
       IN  /\ pos # <<>>
           /\ LET s == sample_at(final_geometry, heap, pos)
              IN  /\ data_vectors' = Append(data_vectors, s.vec)
                  /\ geometry_labels' = Append(geometry_labels, s.run)
                  /\ temperature_labels' = Append(temperature_labels, s.temp)
                  /\ pressure_labels' = Append(pressure_labels, s.pressure)
           /\ cursor' = <<pos[1], pos[2], pos[3] + 1>>
    /\ UNCHANGED <<pc, raised, disk, heap, loaded, input_shapes, lists_140,
                   harness, solver, ties>>

(* The loops of time step 80 end; X is embedded and plotted, and the four
   lists of time step 140 are created. *)
Embed80 ==
    /\ pc = "collect_80"
    /\ next_sample(final_geometry, heap, <<"8", "0">>, cursor) = <<>>
    /\ \E returns \in BOOLEAN :
          /\ returns \in tsne_outcomes(Len(data_vectors))
          /\ IF returns
             THEN /\ pc' = "collect_140"
                  /\ cursor' = <<1, 1, 1>>
                  /\ data_vectors_140' = <<>>
                  /\ geometry_labels_140' = <<>>
                  /\ temperature_labels_140' = <<>>
                  /\ pressure_labels_140' = <<>>
                  /\ UNCHANGED raised
             ELSE /\ pc' = "aborted"
                  /\ raised' = "tsne_model.fit_transform"
                  /\ UNCHANGED <<cursor, lists_140>>
    /\ UNCHANGED <<disk, heap, loaded, input_shapes, lists_80, harness, solver, ties>>

(* One pass of the body of `for i in range(n_images):`, time step 140. *)
Collect140 ==
    /\ pc = "collect_140"
    /\ LET pos == next_sample(final_geometry, heap, <<"1", "4", "0">>, cursor)
       IN  /\ pos # <<>>
           /\ LET s == sample_at(final_geometry, heap, pos)
              IN  /\ data_vectors_140' = Append(data_vectors_140, s.vec)
                  /\ geometry_labels_140' = Append(geometry_labels_140, s.run)
                  /\ temperature_labels_140' = Append(temperature_labels_140, s.temp)
                  /\ pressure_labels_140' = Append(pressure_labels_140, s.pressure)
           /\ cursor' = <<pos[1], pos[2], pos[3] + 1>>
    /\ UNCHANGED <<pc, raised, disk, heap, loaded, input_shapes, lists_80,
                   harness, solver, ties>>

(* The loops of time step 140 end; X_140 is embedded and plotted. *)
Embed140 ==
    /\ pc = "collect_140"
    /\ next_sample(final_geometry, heap, <<"1", "4", "0">>, cursor) = <<>>
    /\ \E returns \in BOOLEAN :
          /\ returns \in tsne_outcomes(Len(data_vectors_140))
          /\ IF returns
             THEN pc' = "done" /\ UNCHANGED raised
             ELSE pc' = "aborted" /\ raised' = "tsne_model_140.fit_transform"
    /\ UNCHANGED <<disk, heap, loaded, input_shapes, cursor, lists_80, lists_140,
                   harness, solver, ties>>

Next ==
    \/ LoadInputGeometry
    \/ LoadFinalGeometry
    \/ CreateOrderedPairs
    \/ WhitenInputs
    \/ WhitenFinalSlot
    \/ StartCollection80
    \/ Collect80
    \/ Embed80
    \/ Collect140
    \/ Embed140

Spec == Init /\ [][Next]_vars

(***************************************************************************)
(* Measuring a whitened matrix: the unbiased sample covariance of its      *)
(* columns, computed as np.cov(Y, rowvar=False) would.                     *)
(***************************************************************************)
SScale(q, x) == IF SIsZero(x) \/ q[1] = 0 THEN SZero ELSE [x EXCEPT !.p = QMul(q, x.p)]

sample_covariance(Y) ==
    LET N == NRows(Y)
        avg == tuple([c \in 1..NCols(Y) |->
                  SScale(<<1, N>>, SSum(tuple([k \in 1..N |-> Y[k][c]]), N))])
        dev == tuple([k \in 1..N |-> tuple([c \in 1..NCols(Y) |-> SSub(Y[k][c], avg[c])])])
    IN  tuple([i \in 1..NCols(Y) |->
            tuple([j \in 1..NCols(Y) |->
                SScale(<<1, N - 1>>,
                       SSum(tuple([k \in 1..N |-> SMul(dev[k][i], dev[k][j])]), N))])])

Isqrt(n) == CHOOSE m \in 1..n : m * m = n

(* x is a variance p / (m * (lam + eps)): it equals lam / (lam + eps). *)
IsShrunkUnit(x, lam, eps) ==
    IF SIsZero(x) THEN lam = <<0, 1>>
    ELSE /\ x.s = << <<lam, eps>>, <<lam, eps>> >>
         /\ QDiv(x.p, QInt(Isqrt(x.n))) = lam

(* |x - 1| <= tol for a variance x = p / (m * (lam + eps)), x.s = <<l, l>>. *)
WithinTolOfOne(x, tol) ==
    /\ ~SIsZero(x)
    /\ Len(x.s) = 2 /\ x.s[1] = x.s[2]
    /\ LET lam == x.s[1][1]
           eps == x.s[1][2]
           r == QSub(QDiv(x.p, QInt(Isqrt(x.n))), lam)
       IN  /\ QLeq(QMul(QSub(<<1, 1>>, tol), eps), QAdd(r, QMul(tol, lam)))
           /\ QLeq(QSub(r, QMul(tol, lam)), QMul(QAdd(<<1, 1>>, tol), eps))

Tol == <<1, 1000>>
Half == <<1, 2>>

IsConstantImage(image) ==
    \A h \in 1..Len(image) : \A w \in 1..Len(image[1]) : image[h][w] = image[1][1]

CovA == sample_covariance(retA[1].X_whitened)
ChannelsB == sample_covariance(reshape2(ravel3(retB[1].whitened),
                                        shape3(img)[1] * shape3(img)[2], shape3(img)[3]))

(***************************************************************************)
(* C1 as stated: for D < N the covariance of the output of pca_whitening   *)
(* is approximately the identity: off-diagonal entries vanish and, with    *)
(* the default epsilon, every diagonal entry is nearer to 1 than to 0.     *)
(***************************************************************************)
C1_CovarianceIsIdentity ==
    (retA # <<>> /\ epsilon = DefaultEpsilon /\ ImgC < NRows(retA[1].X_whitened)) =>
        \A i, j \in 1..ImgC :
            IF i = j THEN WithinTolOfOne(CovA[i][i], Half) ELSE SIsZero(CovA[i][j])

(***************************************************************************)
(* C1 amended: for D < N the covariance of the output of pca_whitening is  *)
(* diagonal, and the i-th diagonal entry is lambda_i / (lambda_i + eps)    *)
(* for the i-th largest eigenvalue lambda_i of the input's covariance: 0   *)
(* on an axis of zero variance, and within 1e-3 of 1 exactly when          *)
(* lambda_i >= 999 eps.                                                    *)
(***************************************************************************)
C1_CovarianceIsShrunkIdentity ==
    (retA # <<>> /\ ImgC < NRows(retA[1].X_whitened)) =>
        \A i, j \in 1..ImgC :
            IF i = j
            THEN /\ IsShrunkUnit(CovA[i][i], retA[1].eigenvalues[i], epsilon)
                 /\ WithinTolOfOne(CovA[i][i], Tol)
                      <=> QLeq(QMul(<<999, 1>>, epsilon), retA[1].eigenvalues[i])
            ELSE SIsZero(CovA[i][j])

C1_Witness ==
    /\ retA # <<>>
    /\ ImgC < NRows(retA[1].X_whitened)
    /\ retA[1].eigenvalues[ImgC] = <<0, 1>>
    /\ retA[1].eigenvalues[1] # <<0, 1>>

C1_FullRankWitness ==
    /\ retA # <<>>
    /\ ImgC < NRows(retA[1].X_whitened)
    /\ epsilon = DefaultEpsilon
    /\ \A i \in 1..ImgC : WithinTolOfOne(CovA[i][i], Tol)

(***************************************************************************)
(* C2: whiten_image(img, eps) returns pca_whitening(img.reshape(-1, C),    *)
(* eps)[0] laid out as (H, W, C), with the same mean vector and the same   *)
(* whitening matrix.                                                       *)
(***************************************************************************)
C2_ModeBIsModeA ==
    (retA # <<>> /\ retB # <<>>) =>
        /\ shape3(retB[1].whitened) = shape3(img)
        /\ \A h \in 1..shape3(img)[1] : \A w \in 1..shape3(img)[2] :
              retB[1].whitened[h][w] = retA[1].X_whitened[(h - 1) * shape3(img)[2] + w]
        /\ retB[1].params.mean = retA[1].params.mean
        /\ retB[1].params.whitening_matrix = retA[1].params.matrix

C2_Witness ==
    /\ retA # <<>> /\ retB # <<>>
    /\ ~IsConstantImage(img)
    /\ \E h \in 1..shape3(img)[1] : \E w \in 1..shape3(img)[2] :
          \E c \in 1..ImgC : ~SIsZero(retB[1].whitened[h][w][c])

(***************************************************************************)
(* C3 as stated: np.arange(17*12*3).reshape(17, 12, 3) whitened by         *)
(* whiten_image with epsilon = 1e-5 has, in each of its 3 channels, a      *)
(* variance over the 204 positions within 1e-3 of 1.0.                     *)
(***************************************************************************)
C3_ArangeAllChannelsUnit ==
    (retB # <<>> /\ img = arange_image(GridH, GridW, ImgC) /\ epsilon = DefaultEpsilon) =>
        /\ shape3(retB[1].whitened) = <<GridH, GridW, ImgC>>
        /\ \A c \in 1..ImgC : WithinTolOfOne(ChannelsB[c][c], Tol)

(***************************************************************************)
(* C3 amended: in that scenario the output is 17 x 12 x 3, the first       *)
(* channel has variance within 1e-3 of 1.0 and the other two channels      *)
(* have variance 0 (the three input channels differ by constants, so the   *)
(* covariance has rank 1).                                                 *)
(***************************************************************************)
C3_ArangeFirstChannelUnit ==
    (retB # <<>> /\ img = arange_image(GridH, GridW, ImgC) /\ epsilon = DefaultEpsilon) =>
        /\ shape3(retB[1].whitened) = <<GridH, GridW, ImgC>>
        /\ WithinTolOfOne(ChannelsB[1][1], Tol)
        /\ \A c \in 2..ImgC : SIsZero(ChannelsB[c][c])

C3_Witness ==
    /\ retB # <<>>
    /\ img = arange_image(GridH, GridW, ImgC)
    /\ epsilon = DefaultEpsilon

DescendingStable(fr) ==
    \A i, j \in 1..ImgC :
        i < j => \/ QLess(fr.eigenvalues[j], fr.eigenvalues[i])
                 \/ fr.eigenvalues[i] = fr.eigenvalues[j] /\ fr.idx[i] < fr.idx[j]

C8_DescendingStable ==
    /\ retA # <<>> => DescendingStable(retA[1])
    /\ retB # <<>> => DescendingStable(retB[1])

(***************************************************************************)
(* C8 amended: in both routines the eigenpairs are ordered by eigenvalue   *)
(* descending and each eigenvector stays with its eigenvalue; eigenpairs   *)
(* with equal eigenvalues do not keep the solver's order: the order is the *)
(* reverse of an ascending argsort, so where that argsort orders equal     *)
(* keys by index, equal eigenvalues come out in reverse index order.       *)
(***************************************************************************)
DescendingPaired(fr) ==
    /\ {fr.idx[i] : i \in 1..ImgC} = 1..ImgC
    /\ \A i \in 1..ImgC :
          /\ fr.eigenvalues[i] = fr.eigh.w[fr.idx[i]]
          /\ \A c \in 1..ImgC : fr.eigenvectors[c][i] = fr.eigh.v[c][fr.idx[i]]
    /\ \A i, j \in 1..ImgC :
          i < j => /\ QLeq(fr.eigenvalues[j], fr.eigenvalues[i])
                   /\ (fr.eigenvalues[i] = fr.eigenvalues[j]
                         /\ \A a, b \in 1..ImgC : a < b => ties[a] < ties[b])
                        => fr.idx[i] > fr.idx[j]

C8_DescendingPaired ==
    /\ retA # <<>> => DescendingPaired(retA[1])
    /\ retB # <<>> => DescendingPaired(retB[1])

C8_Witness ==
    /\ retA # <<>> /\ retB # <<>>
    /\ retB[1].eigenvalues[1] # retB[1].eigenvalues[2]
    /\ retB[1].eigenvalues[2] = retB[1].eigenvalues[3]
    /\ retB[1].idx[2] > retB[1].idx[3]
    /\ retA[1].idx = retB[1].idx

(***************************************************************************)
(* The script: what its stages leave behind.                               *)
(***************************************************************************)
RECURSIVE Joined(_, _)
Joined(parts, sep) ==
    IF Len(parts) = 1 THEN parts[1]
    ELSE parts[1] \o <<sep>> \o Joined(Tail(parts), sep)

Range(s) == {s[n] : n \in 1..Len(s)}

TimestepSet == {80, 140}

ResultFileExists(timestep, temperature, pressure, i) ==
    <<"final_geometry",
      Joined(<< <<"r", "e", "s", "u", "l", "t">>, str(timestep), temperature, pressure,
                str(i) >>, "_")>> \in DOMAIN disk

LabelFor(timestep, temperature, pressure) ==
    Joined(<<str(timestep), temperature, pressure>>, "_")

SpoiledResultFiles ==
    {p \in DOMAIN disk : p[1] = "final_geometry" /\ disk[p].kind # "ok"}

SpoiledSmeshFiles ==
    {f \in SmeshFiles : f.path \notin DOMAIN disk \/ disk[f.path].kind # "ok"}

FinalGeometryLoaded ==
    /\ pc \notin {"harness", "load_input_geometry", "load_final_geometry"}
    /\ raised \notin {"load_input_geometry", "load_final_geometry"}

(* C5: load_final_geometry does not raise unless a result file that exists
   is ill formed, so never because one is missing; the mapping it returns
   has an entry for each of run1..runN, and the label
   "{timestep}_{temperature}_{pressure}" is a key of the entry of run i
   exactly when the file result_{timestep}_{temperature}_{pressure}_{i}
   exists, the entries having no other keys. *)
C5_KeysAreTheFilesPresent ==
    /\ raised = "load_final_geometry" => SpoiledResultFiles # {}
    /\ FinalGeometryLoaded =>
         /\ dict_keys(final_geometry) = [i \in 1..NumRuns |-> run_dir(i)]
         /\ \A i \in 1..NumRuns :
              LET entry == dict_get(final_geometry, run_dir(i))
              IN  /\ \A ts \in TimestepSet, t \in Range(temperatures), p \in Range(pressures) :
                        dict_has(entry, LabelFor(ts, t, p)) <=> ResultFileExists(ts, t, p, i)
                  /\ \A n \in 1..Len(entry) :
                        \E ts \in TimestepSet, t \in Range(temperatures),
                           p \in Range(pressures) : entry[n][1] = LabelFor(ts, t, p)
                  /\ \A n, m \in 1..Len(entry) : entry[n][1] = entry[m][1] => n = m

C5_Witness ==
    /\ pc = "create_ordered_pairs"
    /\ \E n \in 1..Len(final_geometry) : final_geometry[n][2] = <<>>
    /\ \E n \in 1..Len(final_geometry) : Len(final_geometry[n][2]) = 2

(* C6: when create_ordered_pairs has returned, every label of every run of
   final_geometry is a key of that run in exactly one of the two mappings,
   the time step 80 one exactly when its time step is 80 and the time step
   140 one exactly when it is 140; its entry is the tuple of the run's
   input geometry, the temperature and the pressure components of the
   label and the run's output array for the label; and the two mappings
   have no other runs or labels. *)
C6_PairsPartitionByTimestep ==
    pc = "whiten_inputs" =>
      /\ dict_keys(ts80_ordered_pairs) = dict_keys(final_geometry)
      /\ dict_keys(ts140_ordered_pairs) = dict_keys(final_geometry)
      /\ \A n \in 1..Len(final_geometry) :
           LET run == final_geometry[n][1]
               outputs == final_geometry[n][2]
               sub80 == dict_get(ts80_ordered_pairs, run)
               sub140 == dict_get(ts140_ordered_pairs, run)
           IN  /\ Range(dict_keys(sub80)) \cup Range(dict_keys(sub140))
                    \subseteq Range(dict_keys(outputs))
               /\ Len(sub80) + Len(sub140) = Len(outputs)
               /\ \A l \in 1..Len(outputs) :
                    LET label == outputs[l][1]
                        parts == split(label, "_")
                        entry == <<dict_get(input_geometry, run), parts[2], parts[3],
                                   outputs[l][2]>>
                    IN  /\ dict_has(sub80, label) <=> parts[1] = str(80)
                        /\ dict_has(sub140, label) <=> parts[1] = str(140)
                        /\ dict_has(sub80, label) # dict_has(sub140, label)
                        /\ dict_has(sub80, label) => dict_get(sub80, label) = entry
                        /\ dict_has(sub140, label) => dict_get(sub140, label) = entry

C6_Witness ==
    /\ pc = "whiten_inputs"
    /\ \E n \in 1..Len(final_geometry) :
          /\ Len(ts80_ordered_pairs[n][2]) = 1
          /\ Len(ts140_ordered_pairs[n][2]) = 1

(* C7: when one of the smesh files of a run is absent or cannot be parsed
   and reshaped, load_input_geometry raises and the script ends there: no
   mapping is bound, and no later stage (loading the final geometry,
   pairing, whitening, collecting, embedding) has had any effect. *)
C7_BadInputAbortsTheRun ==
    SpoiledSmeshFiles # {} =>
      /\ pc \in {"load_input_geometry", "aborted"}
      /\ pc = "aborted" => raised = "load_input_geometry"
      /\ heap = <<>>
      /\ input_geometry = <<>>
      /\ final_geometry = <<>>
      /\ ts80_ordered_pairs = <<>>
      /\ ts140_ordered_pairs = <<>>
      /\ input_shapes = <<>>
      /\ data_vectors = <<>>
      /\ data_vectors_140 = <<>>

C7_Witness ==
    /\ pc = "aborted"
    /\ raised = "load_input_geometry"
    /\ \E f \in SpoiledSmeshFiles : f.path \in DOMAIN disk /\ disk[f.path].kind = "short"

(* The references held by input_geometry and by the ordered pairs. *)
ReferencedArrays ==
    {input_geometry[n][2][2] : n \in 1..Len(input_geometry)}
      \cup UNION { {pairs[n][2][l][2][4][2] : l \in 1..Len(pairs[n][2])} :
                     n \in 1..Len(ts80_ordered_pairs),
                     pairs \in {ts80_ordered_pairs, ts140_ordered_pairs} }

(* The raw array the slot of run n and label l held: the one its ordered
   pair refers to. *)
RawArrayOf(run, label) ==
    LET sub80 == dict_get(ts80_ordered_pairs, run)
        sub140 == dict_get(ts140_ordered_pairs, run)
    IN  heap[(IF dict_has(sub80, label) THEN dict_get(sub80, label)
              ELSE dict_get(sub140, label))[4][2]]

AllSlotsBundled ==
    \A n \in 1..Len(final_geometry) : \A l \in 1..Len(final_geometry[n][2]) :
        LET content == final_geometry[n][2][l][2]
            raw == RawArrayOf(final_geometry[n][1], final_geometry[n][2][l][1])
        IN  /\ content[1] = "dict"
            /\ content[2][2] \in 1..Len(heap)
            /\ shape4(heap[content[2][2]]) = shape4(raw)
            /\ Len(content[3]) = shape4(raw)[1]

(* C9: a step of the whitening loop over final_geometry keeps the runs and
   the labels of every run, keeps input_geometry, the two mappings of
   ordered pairs and the arrays they refer to as they are, and when the
   loop has ended every slot holds a bundle whose 'whitened' array has the
   shape of the raw array the slot held and whose 'pca_params' list has one
   item per image. *)
C9_WhiteningLoopFrame ==
    [][pc = "whiten_final" =>
         /\ Range(dict_keys(final_geometry')) = Range(dict_keys(final_geometry))
         /\ Len(final_geometry') = Len(final_geometry)
         /\ \A n \in 1..Len(final_geometry) :
              /\ dict_has(final_geometry', final_geometry[n][1])
              /\ Range(dict_keys(dict_get(final_geometry', final_geometry[n][1])))
                   = Range(dict_keys(final_geometry[n][2]))
              /\ Len(dict_get(final_geometry', final_geometry[n][1]))
                   = Len(final_geometry[n][2])
         /\ input_geometry' = input_geometry
         /\ ts80_ordered_pairs' = ts80_ordered_pairs
         /\ ts140_ordered_pairs' = ts140_ordered_pairs
         /\ \A ref \in ReferencedArrays :
              /\ ref \in 1..Len(heap')
              /\ heap'[ref].exact = heap[ref].exact
              /\ heap'[ref].data = heap[ref].data
         /\ pc' # "whiten_final" => AllSlotsBundled']_vars

C9_Witness ==
    /\ pc = "collect_80"
    /\ cursor = <<1, 1, 1>>
    /\ Len(slots(final_geometry)) = 2
    /\ AllSlotsBundled

(* The samples of a time step: one per image of the 'whitened' array of
   every run and label whose time step it is, in the order of the runs,
   the labels of a run and the images of a label. *)
RECURSIVE SamplesFrom(_, _)
SamplesFrom(timestep, n) ==
    IF n > Len(slots(final_geometry)) THEN <<>>
    ELSE LET run == slots(final_geometry)[n][1]
             label == slots(final_geometry)[n][2]
             parts == split(label, "_")
             whitened == heap[dict_get(dict_get(final_geometry, run), label)[2][2]].data
         IN  (IF parts[1] = str(timestep)
              THEN [i \in 1..Len(whitened) |->
                       [vec |-> ravel3(whitened[i]), run |-> run,
                        temp |-> parts[2], pressure |-> parts[3]]]
              ELSE <<>>) \o SamplesFrom(timestep, n + 1)

Collected(vectors, runs, temps, press, expected, complete) ==
    /\ Len(runs) = Len(vectors)
    /\ Len(temps) = Len(vectors)
    /\ Len(press) = Len(vectors)
    /\ Len(vectors) <= Len(expected)
    /\ complete => Len(vectors) = Len(expected)
    /\ \A i \in 1..Len(vectors) :
          /\ vectors[i] = expected[i].vec
          /\ runs[i] = expected[i].run
          /\ temps[i] = expected[i].temp
          /\ press[i] = expected[i].pressure

(* C10: while and after the samples of a time step are collected, the four
   lists of that time step have the same length; item i of the three label
   lists is the run, the temperature and the pressure of the image whose
   vector is item i of data_vectors; and when the loops have ended the
   lists hold one item for every whitened image of every run and label of
   that time step, and none of the other time step. *)
C10_ListsStayAligned ==
    /\ pc \in {"collect_80", "collect_140", "done"} \/ raised \in {"tsne_model.fit_transform", "tsne_model_140.fit_transform"} =>
         Collected(data_vectors, geometry_labels, temperature_labels, pressure_labels,
                   SamplesFrom(80, 1), pc # "collect_80")
    /\ pc \in {"collect_140", "done"} \/ raised = "tsne_model_140.fit_transform" =>
         Collected(data_vectors_140, geometry_labels_140, temperature_labels_140,
                   pressure_labels_140, SamplesFrom(140, 1), pc # "collect_140")

C10_Witness ==
    /\ pc = "done"
    /\ Len(data_vectors) = NumParts
    /\ Len(data_vectors_140) = NumParts
    /\ geometry_labels # geometry_labels_140

====
